---- MODULE Spec2Model ----
(***************************************************************************)
(* VAT compliance monitor: the validation handlers                         *)
(*   src/src/vcm-textract-lambda/app.py  (handler "textract")              *)
(*   src/src/ocr_lambda/app.py           (handler "ocr")                   *)
(* the alert handler                                                       *)
(*   src/src/vcm-alert-lambda/lambda_function.py                           *)
(* and the PDF preprocessing handlers                                      *)
(*   src/docker/lambda_function.py                                         *)
(*   src/src/vcm-preprocess-lambda/lambda_function.py                      *)
(* Strings are sequences of one-character strings.  Python floats are      *)
(* modelled as exact decimals: a record of the digits before and after     *)
(* the decimal point, kept canonical (no leading zero before the point, no *)
(* trailing zero after it), so that equal values are equal records.  The   *)
(* two places where binary floating point decides the outcome (a rounding  *)
(* tie in round(x, 2), a difference exactly equal to the tolerance) are    *)
(* nondeterministic choices of the handler actions.                        *)
(***************************************************************************)
EXTENDS Integers, Sequences, FiniteSets, TLC

VARIABLES
    pc,                    \* "idle", or where the entry point that ran ended:
                           \* "done" | "raised" | "nn_done" | "rc_done" |
                           \* "lr_done" | "lr_raised" | "al_done" | "pp_done"
    handler,               \* which lambda_handler ran last
    vat_id_raw, vat_rate_str, vat_amount_str, net_total_str,
    vid, country, vat_rate, vat_amount, net_total,
    allowed_rates,         \* the mapping the validation ran against
    status, reasons, reason,
    CACHED_ALLOWED_RATES,  \* module-level cache of the textract handler
    config_csv,            \* the rows of the CSV object in the config bucket
    error,                 \* "none", or the exception the handler raised
    value, result,         \* argument and return value of normalize_number
    id_text,               \* the text that follows the VAT-id label on the invoice
    fetched,               \* load_allowed_rates called s3.get_object in its last call
    effects,               \* the output calls of the invocation, in order, with outcome
    CACHED_SLACK_WEBHOOK_URL, \* module-level cache of the webhook secret
    event, emails,         \* alert handler: the stream records, the send_email calls
    preprocessor,          \* which PDF preprocessing handler ran last
    s3_events,             \* ObjectCreated events not yet delivered
    object_key,            \* the key of the event being handled
    tmp_files,             \* the files under /tmp of the Lambda container
    steps,                 \* the external steps of the invocation, with exit code
    response,              \* "none", "200" or "raised"
    uploads                \* uploads under processed/ since the last raw upload

vars == <<pc, handler, vat_id_raw, vat_rate_str, vat_amount_str, net_total_str,
          vid, country, vat_rate, vat_amount, net_total, allowed_rates,
          status, reasons, reason, CACHED_ALLOWED_RATES, config_csv, error, value, result,
          id_text, fetched, effects, CACHED_SLACK_WEBHOOK_URL, event, emails,
          preprocessor, s3_events, object_key, tmp_files, steps, response, uploads>>

\* what one invocation of a validation handler leaves behind, minus the cache
invoiceVars == <<handler, vat_id_raw, vat_rate_str, vat_amount_str, net_total_str,
                 vid, country, vat_rate, vat_amount, net_total, allowed_rates,
                 status, reasons, reason, error>>

\* argument and result of a call of normalize_number on its own
normVars == <<value, result>>

\* country resolution on its own
countryVars == <<id_text>>

\* a call of load_allowed_rates on its own
loadVars == <<fetched>>

\* what the validation handlers write outside the process
storeVars == <<effects, CACHED_SLACK_WEBHOOK_URL>>

\* the alert handler
alertVars == <<event, emails>>

\* the PDF preprocessing handlers
prepVars == <<preprocessor, s3_events, object_key, tmp_files, steps, response,
              uploads>>

\* state of the other entry points, which the validation handlers never touch
auxVars == <<countryVars, loadVars, alertVars, prepVars>>

(***************************************************************************)
(* Bounds                                                                  *)
(***************************************************************************)
MaxIdLen == 2
MaxRateLen == 3
MaxNets == 3
MaxAmountCents == 5
MaxRawLen == 3
MaxGroups == 1
MaxIdTextLen == 4
MaxRows == 3
MaxRecords == 2
MaxUploads == 2

(***************************************************************************)
(* Program constants                                                       *)
(***************************************************************************)
TOLERANCE_CENTS == 2
OCR_TOLERANCE_CENTS == 50

(***************************************************************************)
(* Strings                                                                 *)
(***************************************************************************)
NoneStr == <<"None">>

DigitChars == <<"0", "1", "2", "3", "4", "5", "6", "7", "8", "9">>

Digits == {DigitChars[i] : i \in 1..10}

DigitVal(c) == (CHOOSE i \in 1..10 : DigitChars[i] = c) - 1

Whitespace == {" "}

Contains(s, c) == \E i \in 1..Len(s) : s[i] = c

RECURSIVE replace(_, _, _)
replace(s, old, new) ==
    IF Len(s) < Len(old) THEN s
    ELSE IF SubSeq(s, 1, Len(old)) = old
         THEN new \o replace(SubSeq(s, Len(old) + 1, Len(s)), old, new)
         ELSE <<s[1]>> \o replace(Tail(s), old, new)

RECURSIVE lstrip(_)
lstrip(s) == IF s # <<>> /\ s[1] \in Whitespace THEN lstrip(Tail(s)) ELSE s

RECURSIVE rstrip(_)
rstrip(s) ==
    IF s # <<>> /\ s[Len(s)] \in Whitespace
    THEN rstrip(SubSeq(s, 1, Len(s) - 1)) ELSE s

strip(s) == rstrip(lstrip(s))

UpperChar(c) ==
    CASE c = "i" -> "I"
      [] c = "t" -> "T"
      [] c = "c" -> "C"
      [] c = "h" -> "H"
      [] c = "e" -> "E"
      [] OTHER -> c

upper(s) == [i \in 1..Len(s) |-> UpperChar(s[i])]

UpperLetters == {"I", "T", "C", "H", "E", "F", "X"}

(***************************************************************************)
(* Numbers                                                                 *)
(***************************************************************************)
RECURSIVE StripLeadingZeros(_)
StripLeadingZeros(s) ==
    IF s # <<>> /\ s[1] = "0" THEN StripLeadingZeros(Tail(s)) ELSE s

RECURSIVE StripTrailingZeros(_)
StripTrailingZeros(s) ==
    IF s # <<>> /\ s[Len(s)] = "0"
    THEN StripTrailingZeros(SubSeq(s, 1, Len(s) - 1)) ELSE s

None == [some |-> FALSE, ip |-> <<>>, fp |-> <<>>]

Num(ip, fp) ==
    [some |-> TRUE, ip |-> StripLeadingZeros(ip), fp |-> StripTrailingZeros(fp)]

\* float(s): the literals the model's alphabet can spell are digits with at
\* most one '.', at least one digit, surrounding whitespace ignored.
FloatOk(s) ==
    LET t == strip(s) IN
    /\ \A i \in 1..Len(t) : t[i] \in Digits \cup {"."}
    /\ \E i \in 1..Len(t) : t[i] \in Digits
    /\ Cardinality({i \in 1..Len(t) : t[i] = "."}) <= 1

FloatVal(s) ==
    LET t == strip(s)
        dot == IF Contains(t, ".")
               THEN CHOOSE i \in 1..Len(t) : t[i] = "."
               ELSE Len(t) + 1
    IN  Num(SubSeq(t, 1, dot - 1), SubSeq(t, dot + 1, Len(t)))

Truthy(x) == x.some /\ ~(x.ip = <<>> /\ x.fp = <<>>)

GreaterThanOne(x) == x.ip # <<>> /\ ~(x.ip = <<"1">> /\ x.fp = <<>>)

\* x / 100: the decimal point moves two places to the left.
Div100(x) ==
    LET padded == <<"0", "0">> \o x.ip IN
    Num(SubSeq(padded, 1, Len(padded) - 2),
        SubSeq(padded, Len(padded) - 1, Len(padded)) \o x.fp)

RECURSIVE ToInt(_)
ToInt(ds) ==
    IF ds = <<>> THEN 0
    ELSE ToInt(SubSeq(ds, 1, Len(ds) - 1)) * 10 + DigitVal(ds[Len(ds)])

RECURSIVE ToDigits(_)
ToDigits(n) ==
    IF n = 0 THEN <<>> ELSE ToDigits(n \div 10) \o <<DigitChars[(n % 10) + 1]>>

RECURSIVE Pow10(_)
Pow10(n) == IF n = 0 THEN 1 ELSE 10 * Pow10(n - 1)

Mantissa(x) == ToInt(x.ip \o x.fp)

FromCents(c) ==
    Num(ToDigits(c \div 100),
        <<DigitChars[((c % 100) \div 10) + 1], DigitChars[(c % 10) + 1]>>)

Abs(n) == IF n < 0 THEN -n ELSE n

Max(a, b) == IF a > b THEN a ELSE b

(***************************************************************************)
(* vcm-textract-lambda/app.py: helpers                                     *)
(***************************************************************************)
\* normalize_number without the branch for strings holding both separators
normalize_number_commas_only(v_in) ==
    IF v_in = NoneStr \/ v_in = <<>> THEN None
    ELSE LET v0 == strip(v_in)
             v1 == replace(v0, <<"€">>, <<>>)
             v2 == replace(v1, <<"$">>, <<>>)
             v3 == replace(v2, <<"£">>, <<>>)
             v4 == replace(v3, <<"C", "H", "F">>, <<>>)
             v  == replace(v4, <<",">>, <<>>)
         IN  IF FloatOk(v) THEN FloatVal(v) ELSE None

normalize_number(v_in) ==
    IF v_in = NoneStr \/ v_in = <<>> THEN None
    ELSE LET v0 == strip(v_in)
             v1 == replace(v0, <<"€">>, <<>>)
             v2 == replace(v1, <<"$">>, <<>>)
             v3 == replace(v2, <<"£">>, <<>>)
             v4 == replace(v3, <<"C", "H", "F">>, <<>>)
             v  == IF Contains(v4, ".") /\ Contains(v4, ",")
                   THEN replace(replace(v4, <<".">>, <<>>), <<",">>, <<".">>)
                   ELSE replace(v4, <<",">>, <<>>)
         IN  IF FloatOk(v) THEN FloatVal(v) ELSE None

\* raw_rate = float(vat_rate_str.replace(',', '.')): does the float() succeed?
RateParses(s) == s = NoneStr \/ s = <<>> \/ FloatOk(replace(s, <<",">>, <<".">>))

RawRate(s) ==
    IF s = NoneStr \/ s = <<>> THEN None
    ELSE FloatVal(replace(s, <<",">>, <<".">>))

textract_vat_rate(s) ==
    LET raw_rate == RawRate(s) IN
    IF Truthy(raw_rate) /\ GreaterThanOne(raw_rate) THEN Div100(raw_rate)
    ELSE raw_rate

\* characters of the class [A-Za-z0-9]
Alnum == UpperLetters \cup {"i", "t", "c", "h", "e"} \cup Digits

\* the greedy group ([A-Za-z0-9]+), matched at the start of s
RECURSIVE AlnumRun(_)
AlnumRun(s) ==
    IF s # <<>> /\ s[1] \in Alnum THEN <<s[1]>> \o AlnumRun(Tail(s)) ELSE <<>>

\* extract_field with the VAT-id pattern, on the text t that follows the label:
\* \s*[:\-]?\s*([A-Za-z0-9]+), then .strip(); None when nothing is captured
extract_vat_id(t) ==
    LET a   == lstrip(t)
        b   == IF a # <<>> /\ a[1] \in {":", "-"} THEN lstrip(Tail(a)) ELSE a
        run == AlnumRun(b)
    IN  IF run = <<>> THEN NoneStr ELSE strip(run)

textract_vid_as_captured(id) ==
    replace(IF id = NoneStr THEN <<>> ELSE id, <<" ">>, <<>>)

textract_vid(id) ==
    upper(replace(IF id = NoneStr THEN <<>> ELSE id, <<" ">>, <<>>))

\* m = re.match(r'^([A-Z]{2})', vid)
textract_match(v) == Len(v) >= 2 /\ v[1] \in UpperLetters /\ v[2] \in UpperLetters

textract_country(v) == IF textract_match(v) THEN SubSeq(v, 1, 2) ELSE NoneStr

(***************************************************************************)
(* The allowed-rates configuration                                         *)
(***************************************************************************)
NoDict == [set |-> FALSE, rates |-> <<>>]

RECURSIVE BuildRates(_, _, _)
BuildRates(rows, up, acc) ==
    IF rows = <<>> THEN acc
    ELSE LET c == IF up THEN upper(rows[1].country) ELSE rows[1].country
             r == FloatVal(rows[1].rate)
         IN  BuildRates(Tail(rows), up,
                 IF c \in DOMAIN acc
                 THEN [acc EXCEPT ![c] = Append(@, r)]
                 ELSE [k \in DOMAIN acc \cup {c} |->
                          IF k = c THEN <<r>> ELSE acc[k]])

RowsParse(rows) == \A i \in 1..Len(rows) : FloatOk(rows[i].rate)

load_allowed_rates_returns_empty(cache, rows, fetch_ok) ==
    IF cache.set /\ DOMAIN cache.rates # {}
    THEN [ok |-> TRUE, rates |-> cache.rates, cache |-> cache, fetched |-> FALSE]
    ELSE IF fetch_ok /\ RowsParse(rows)
         THEN LET rates == BuildRates(rows, TRUE, <<>>) IN
              [ok |-> TRUE, rates |-> rates,
               cache |-> [set |-> TRUE, rates |-> rates], fetched |-> TRUE]
         ELSE [ok |-> TRUE, rates |-> <<>>, cache |-> cache, fetched |-> TRUE]

\* load_allowed_rates of the textract handler: the value returned (ok = FALSE
\* when it raises) and the cache it leaves behind.
load_allowed_rates(cache, rows, fetch_ok) ==
    IF cache.set /\ DOMAIN cache.rates # {}
    THEN [ok |-> TRUE, rates |-> cache.rates, cache |-> cache, fetched |-> FALSE]
    ELSE IF fetch_ok /\ RowsParse(rows)
         THEN LET rates == BuildRates(rows, TRUE, <<>>) IN
              [ok |-> TRUE, rates |-> rates,
               cache |-> [set |-> TRUE, rates |-> rates], fetched |-> TRUE]
         ELSE [ok |-> FALSE, rates |-> <<>>, cache |-> cache, fetched |-> TRUE]

ocr_load_allowed_rates(rows, fetch_ok) ==
    IF fetch_ok /\ RowsParse(rows)
    THEN [ok |-> TRUE, rates |-> BuildRates(rows, FALSE, <<>>)]
    ELSE [ok |-> FALSE, rates |-> <<>>]

\* allowed_rates.get(country, [])
RatesFor(allowed, c) == IF c \in DOMAIN allowed THEN allowed[c] ELSE <<>>

InList(x, list) == \E i \in 1..Len(list) : list[i] = x

(***************************************************************************)
(* Validation                                                              *)
(***************************************************************************)
Reason(kind, expected) == [kind |-> kind, expected |-> expected]

\* round(net_total * vat_rate, 2), in cents.  tieUp is the direction binary
\* floating point takes when the exact product lies halfway between two cents.
ExpectedVat(net, rate, tieUp) ==
    LET p == Mantissa(net) * Mantissa(rate)
        e == Len(net.fp) + Len(rate.fp)
    IN  IF e <= 2 THEN p * Pow10(2 - e)
        ELSE LET d == Pow10(e - 2)
                 q == p \div d
                 r == p % d
             IN  IF 2 * r < d THEN q
                 ELSE IF 2 * r > d THEN q + 1
                 ELSE IF tieUp THEN q + 1 ELSE q

\* |expected - amount| in units of 10^-s, s = ScaleOf(amount)
ScaleOf(amount) == Max(2, Len(amount.fp))

Diff(expected, amount) ==
    LET s == ScaleOf(amount) IN
    Abs(expected * Pow10(s - 2) - Mantissa(amount) * Pow10(s - Len(amount.fp)))

\* abs(expected - vat_amount) > tolerance.  edgeOver is the outcome binary
\* floating point gives when the exact difference equals the tolerance.
Exceeds(expected, amount, tolerance, edgeOver) ==
    LET t == tolerance * Pow10(ScaleOf(amount) - 2)
        d == Diff(expected, amount)
    IN  d > t \/ (d = t /\ edgeOver)

\* textract_validate without its first branch (the VAT ID format check)
textract_validate_no_id_check(v, c, rate, amount, allowed) ==
    IF ~(rate.some /\ amount.some)
    THEN [status |-> "FAIL", reasons |-> <<Reason("Missing VAT rate or VAT amount", None)>>]
    ELSE IF c \notin DOMAIN allowed
    THEN [status |-> "FAIL", reasons |-> <<Reason("Country code not in configuration", None)>>]
    ELSE IF ~InList(rate, RatesFor(allowed, c))
    THEN [status |-> "FAIL", reasons |-> <<Reason("Invalid VAT rate", None)>>]
    ELSE [status |-> "PASS", reasons |-> <<>>]

textract_validate(v, c, rate, amount, allowed) ==
    IF ~textract_match(v)
    THEN [status |-> "FAIL", reasons |-> <<Reason("Invalid VAT ID format", None)>>]
    ELSE IF ~(rate.some /\ amount.some)
    THEN [status |-> "FAIL", reasons |-> <<Reason("Missing VAT rate or VAT amount", None)>>]
    ELSE IF c \notin DOMAIN allowed
    THEN [status |-> "FAIL", reasons |-> <<Reason("Country code not in configuration", None)>>]
    ELSE IF ~InList(rate, RatesFor(allowed, c))
    THEN [status |-> "FAIL", reasons |-> <<Reason("Invalid VAT rate", None)>>]
    ELSE [status |-> "PASS", reasons |-> <<>>]

\* textract_math_check that appends its reason and forgets status = "FAIL"
textract_math_check_keeps_status(prev, net, rate, amount, tieUp, edgeOver) ==
    IF prev.status = "PASS" /\ Truthy(net)
    THEN LET expected_vat == ExpectedVat(net, rate, tieUp) IN
         IF Exceeds(expected_vat, amount, TOLERANCE_CENTS, edgeOver)
         THEN [status |-> prev.status,
               reasons |-> Append(prev.reasons,
                             Reason("Math check failed", FromCents(expected_vat)))]
         ELSE prev
    ELSE prev

textract_math_check(prev, net, rate, amount, tieUp, edgeOver) ==
    IF prev.status = "PASS" /\ Truthy(net)
    THEN LET expected_vat == ExpectedVat(net, rate, tieUp) IN
         IF Exceeds(expected_vat, amount, TOLERANCE_CENTS, edgeOver)
         THEN [status |-> "FAIL",
               reasons |-> Append(prev.reasons,
                             Reason("Math check failed", FromCents(expected_vat)))]
         ELSE prev
    ELSE prev

RECURSIVE join(_)
join(rs) ==
    IF rs = <<>> THEN <<>>
    ELSE IF Len(rs) = 1 THEN <<rs[1].kind>>
    ELSE <<rs[1].kind, "; ">> \o join(Tail(rs))

\* "; ".join(reasons) or "All checks passed"
render(rs) == IF join(rs) = <<>> THEN <<"All checks passed">> ELSE join(rs)

(***************************************************************************)
(* ocr_lambda/app.py                                                       *)
(***************************************************************************)
OcrCleaned(s) == strip(replace(replace(s, <<"€">>, <<>>), <<",">>, <<>>))

\* normalize(value): float(...) raises on what it cannot parse
ocr_normalize_parses(s) == s = NoneStr \/ s = <<>> \/ FloatOk(OcrCleaned(s))

ocr_normalize(s) ==
    IF s = NoneStr \/ s = <<>> THEN None ELSE FloatVal(OcrCleaned(s))

ocr_vat_rate(s) ==
    IF s = NoneStr \/ s = <<>> THEN None ELSE Div100(RawRate(s))

ocr_country(id) ==
    IF id = NoneStr \/ id = <<>> THEN NoneStr
    ELSE SubSeq(id, 1, IF Len(id) < 2 THEN Len(id) ELSE 2)

ocr_validate(id, rate, amount, net, allowed, tieUp, edgeOver) ==
    LET present == id # NoneStr /\ id # <<>>
        c  == ocr_country(id)
        r1 == IF ~(present /\ Truthy(rate) /\ Truthy(amount))
              THEN <<Reason("Missing one or more required fields", None)>>
              ELSE <<>>
        r2 == IF c \notin DOMAIN allowed \/ ~InList(rate, RatesFor(allowed, c))
              THEN <<Reason("Invalid VAT rate", None)>>
              ELSE <<>>
        r3 == IF Truthy(net) /\ Truthy(rate) /\ Truthy(amount)
              THEN LET expected == ExpectedVat(net, rate, tieUp) IN
                   IF Exceeds(expected, amount, OCR_TOLERANCE_CENTS, edgeOver)
                   THEN <<Reason("Math check failed", FromCents(expected))>>
                   ELSE <<>>
              ELSE <<>>
        rs == r1 \o r2 \o r3
    IN  [status |-> IF rs = <<>> THEN "PASS" ELSE "FAIL", reasons |-> rs]

(***************************************************************************)
(* The handlers                                                            *)
(***************************************************************************)
Raised(err, cache) ==
    [pc |-> "raised", error |-> err, vid |-> NoneStr, country |-> NoneStr,
     vat_rate |-> None, vat_amount |-> None, net_total |-> None,
     allowed_rates |-> <<>>, status |-> "unset", reasons |-> <<>>, reason |-> <<>>, cache |-> cache]

\* "2. Field Extraction" and "3. Data Normalization" of the textract handler;
\* parsed = FALSE when float() of the captured rate raises
textract_fields(id, rs, as, ns) ==
    IF ~RateParses(rs)
    THEN [parsed |-> FALSE, vid |-> NoneStr, country |-> NoneStr,
          rate |-> None, amount |-> None, net |-> None]
    ELSE LET v == textract_vid(id) IN
         [parsed |-> TRUE, vid |-> v, country |-> textract_country(v),
          rate |-> textract_vat_rate(rs), amount |-> normalize_number(as),
          net |-> normalize_number(ns)]

\* the textract handler from the extracted fields f to the validation result
textract_lambda_handler(f, cache, rows, fetch_ok, tieUp, edgeOver) ==
    IF ~f.parsed THEN Raised("ValueError", cache)
    ELSE LET loaded == load_allowed_rates(cache, rows, fetch_ok)
         IN  IF ~loaded.ok THEN Raised("ConfigLoadFailure", loaded.cache)
             ELSE LET first == textract_validate(f.vid, f.country, f.rate,
                                                 f.amount, loaded.rates)
                      final == textract_math_check(first, f.net, f.rate, f.amount,
                                                   tieUp, edgeOver)
                  IN  [pc |-> "done", error |-> "none", vid |-> f.vid,
                       country |-> f.country,
                       vat_rate |-> f.rate, vat_amount |-> f.amount,
                       net_total |-> f.net,
                       allowed_rates |-> loaded.rates,
                       status |-> final.status, reasons |-> final.reasons,
                       reason |-> render(final.reasons), cache |-> loaded.cache]

\* "Step 3" and "Step 4" of ocr_lambda; parsed = FALSE when a float() raises
ocr_fields(id, rs, as, ns) ==
    IF ~(RateParses(rs) /\ ocr_normalize_parses(as) /\ ocr_normalize_parses(ns))
    THEN [parsed |-> FALSE, id |-> id, rate |-> None, amount |-> None,
          net |-> None]
    ELSE [parsed |-> TRUE, id |-> id, rate |-> ocr_vat_rate(rs),
          amount |-> ocr_normalize(as), net |-> ocr_normalize(ns)]

\* ocr_lambda from the extracted fields f to the validation result
ocr_lambda_handler(f, cache, rows, fetch_ok, tieUp, edgeOver) ==
    IF ~f.parsed THEN Raised("ValueError", cache)
    ELSE LET loaded == ocr_load_allowed_rates(rows, fetch_ok)
         IN  IF ~loaded.ok THEN Raised("ConfigLoadFailure", cache)
             ELSE LET final == ocr_validate(f.id, f.rate, f.amount, f.net,
                                            loaded.rates, tieUp, edgeOver)
                  IN  [pc |-> "done", error |-> "none",
                       vid |-> IF f.id = NoneStr THEN <<>> ELSE f.id,
                       country |-> ocr_country(f.id),
                       vat_rate |-> f.rate, vat_amount |-> f.amount,
                       net_total |-> f.net,
                       allowed_rates |-> loaded.rates,
                       status |-> final.status, reasons |-> final.reasons,
                       reason |-> render(final.reasons), cache |-> cache]

(***************************************************************************)
(* The outputs of an invocation: row store, Parquet export, Slack          *)
(***************************************************************************)
\* one output call and whether it did what it was called for
Effect(op, ok) == [op |-> op, ok |-> ok]

\* The collaborators during one invocation: table.put_item and the Parquet
\* upload succeed or raise, Secrets Manager raises ("error") or holds a
\* webhook URL ("url") or an empty one (""), the HTTP POST succeeds or raises.
Envs ==
    [put_ok : BOOLEAN, parquet_ok : BOOLEAN, secret : {"error", "url", ""},
     post_ok : BOOLEAN]

OkEnv == [put_ok |-> TRUE, parquet_ok |-> TRUE, secret |-> "url", post_ok |-> TRUE]

\* `if CACHED_SLACK_WEBHOOK_URL:` / `if hook:`
UrlTruthy(u) == u \notin {"None", ""}

get_slack_webhook(cache, secret) ==
    IF UrlTruthy(cache) THEN [ok |-> TRUE, url |-> cache, cache |-> cache]
    ELSE IF secret = "error" THEN [ok |-> FALSE, url |-> "None", cache |-> cache]
    ELSE [ok |-> TRUE, url |-> secret, cache |-> secret]

\* never raises: every exception is logged and dropped
send_slack_notification(cache, env) ==
    LET hook == get_slack_webhook(cache, env.secret) IN
    [effect |-> Effect("slack", hook.ok /\ UrlTruthy(hook.url) /\ env.post_ok),
     cache  |-> hook.cache]

\* never raises: every exception is logged and dropped
save_parquet_to_s3(env) == Effect("parquet", env.parquet_ok)

textract_store_results_parquet_raises(out, cache, env) ==
    IF out.pc # "done" THEN [raised |-> FALSE, effects |-> <<>>, cache |-> cache]
    ELSE IF ~env.put_ok
    THEN [raised |-> TRUE, effects |-> <<Effect("put_item", FALSE)>>, cache |-> cache]
    ELSE IF ~env.parquet_ok
    THEN [raised |-> TRUE,
          effects |-> <<Effect("put_item", TRUE), Effect("parquet", FALSE)>>,
          cache |-> cache]
    ELSE LET slack == send_slack_notification(cache, env) IN
         [raised  |-> FALSE,
          effects |-> <<Effect("put_item", TRUE), save_parquet_to_s3(env),
                        slack.effect>>,
          cache   |-> slack.cache]

\* "5. Store Results" of the textract handler, reached when validation ended
textract_store_results(out, cache, env) ==
    IF out.pc # "done" THEN [raised |-> FALSE, effects |-> <<>>, cache |-> cache]
    ELSE IF ~env.put_ok
    THEN [raised |-> TRUE, effects |-> <<Effect("put_item", FALSE)>>, cache |-> cache]
    ELSE LET slack == send_slack_notification(cache, env) IN
         [raised  |-> FALSE,
          effects |-> <<Effect("put_item", TRUE), save_parquet_to_s3(env),
                        slack.effect>>,
          cache   |-> slack.cache]

\* ocr_lambda: put_item, then a POST to the webhook of the environment
\* variable when it is set; neither call is guarded, the module cache is
\* not used.
ocr_store_results(out, cache, env) ==
    IF out.pc # "done" THEN [raised |-> FALSE, effects |-> <<>>, cache |-> cache]
    ELSE IF ~env.put_ok
    THEN [raised |-> TRUE, effects |-> <<Effect("put_item", FALSE)>>, cache |-> cache]
    ELSE IF ~UrlTruthy(env.secret)
    THEN [raised |-> FALSE, effects |-> <<Effect("put_item", TRUE)>>, cache |-> cache]
    ELSE [raised  |-> ~env.post_ok,
          effects |-> <<Effect("put_item", TRUE), Effect("slack", env.post_ok)>>,
          cache   |-> cache]

\* what the invocation leaves behind once the outputs are done
Outcome(out, stored) ==
    IF stored.raised THEN Raised("StoreError", out.cache) ELSE out

(***************************************************************************)
(* vcm-alert-lambda/lambda_function.py                                     *)
(***************************************************************************)
\* A stream record: its eventName and the status attribute of its NewImage
\* ("none": the record has no NewImage; "absent": the image has no status).
StreamRecord(name, image) == [eventName |-> name, image |-> image]

\* One send_email call: the record it is for, and whether SES took the mail
\* (ses = "ok"); the call raises when SES rejects it ("fails") or when the
\* sender/recipient environment variables are unset ("no_env").
Email(i, ses) == [record |-> i, sent |-> ses = "ok"]

RECURSIVE alert_records_any_event(_, _, _)
alert_records_any_event(records, i, ses) ==
    IF i > Len(records) THEN <<>>
    ELSE (IF records[i].image = "FAIL" THEN <<Email(i, ses)>> ELSE <<>>)
         \o alert_records_any_event(records, i + 1, ses)

\* the loop over the records, from record i on: the send_email calls it makes
RECURSIVE alert_records(_, _, _)
alert_records(records, i, ses) ==
    IF i > Len(records) THEN <<>>
    ELSE (IF records[i].eventName = "INSERT" /\ records[i].image = "FAIL"
          THEN <<Email(i, ses)>> ELSE <<>>)
         \o alert_records(records, i + 1, ses)

(***************************************************************************)
(* The PDF preprocessing handlers                                          *)
(*   src/docker/lambda_function.py                    ("docker")           *)
(*   src/src/vcm-preprocess-lambda/lambda_function.py ("preprocess")       *)
(* An object key is the sequence of its '/'-separated segments.            *)
(***************************************************************************)
\* key.startswith("processed/")
startswith_processed(key) == Len(key) > 1 /\ key[1] = "processed"

\* os.path.basename(key)
basename(key) == key[Len(key)]

\* f"/tmp/{filename}"
local_path(filename) == <<"tmp", filename>>

\* f"/tmp/ocr_{filename}"
ocr_output_path(filename) == <<"tmp", "ocr_", filename>>

\* f"processed/{filename}"
output_key(filename) == <<"processed", filename>>

\* one external step and its exit code (download, upload, invoke: 0 when the
\* call returned, 1 when it raised)
Step(op, rc) == [op |-> op, rc |-> rc]

Rc(ok) == IF ok THEN 0 ELSE 1

docker_lambda_handler_no_finally(key, tmp, env) ==
    IF startswith_processed(key)
    THEN [steps |-> <<>>, response |-> "200", tmp |-> tmp, uploaded |-> FALSE]
    ELSE LET local    == local_path(basename(key))
             out      == ocr_output_path(basename(key))
             ocr_ok   == env.download_ok /\ env.ocr_rc = 0
             qpdf_ok  == ocr_ok /\ env.qpdf_rc = 0
             uploaded == qpdf_ok /\ env.upload_ok
             written  ==
                 (IF env.download_ok THEN {local} ELSE {})
                 \cup (IF env.download_ok /\ (env.ocr_rc = 0 \/ env.ocr_wrote)
                       THEN {out} ELSE {})
         IN  [steps |->
                  <<Step("download", Rc(env.download_ok))>>
                  \o (IF env.download_ok THEN <<Step("ocr", env.ocr_rc)>> ELSE <<>>)
                  \o (IF ocr_ok THEN <<Step("qpdf", env.qpdf_rc)>> ELSE <<>>)
                  \o (IF qpdf_ok THEN <<Step("upload", Rc(env.upload_ok))>> ELSE <<>>),
              response |-> IF uploaded THEN "200" ELSE "raised",
              tmp      |-> IF uploaded THEN (tmp \cup written) \ {local, out}
                           ELSE tmp \cup written,
              uploaded |-> uploaded]

\* docker/lambda_function.py: skip keys under processed/; download, OCR, qpdf
\* check of the OCR output, upload; the finally block removes both temporary
\* files.  A failing OCR run may or may not have written its output file.
docker_lambda_handler(key, tmp, env) ==
    IF startswith_processed(key)
    THEN [steps |-> <<>>, response |-> "200", tmp |-> tmp, uploaded |-> FALSE]
    ELSE LET local    == local_path(basename(key))
             out      == ocr_output_path(basename(key))
             ocr_ok   == env.download_ok /\ env.ocr_rc = 0
             qpdf_ok  == ocr_ok /\ env.qpdf_rc = 0
             uploaded == qpdf_ok /\ env.upload_ok
             written  ==
                 (IF env.download_ok THEN {local} ELSE {})
                 \cup (IF env.download_ok /\ (env.ocr_rc = 0 \/ env.ocr_wrote)
                       THEN {out} ELSE {})
         IN  [steps |->
                  <<Step("download", Rc(env.download_ok))>>
                  \o (IF env.download_ok THEN <<Step("ocr", env.ocr_rc)>> ELSE <<>>)
                  \o (IF ocr_ok THEN <<Step("qpdf", env.qpdf_rc)>> ELSE <<>>)
                  \o (IF qpdf_ok THEN <<Step("upload", Rc(env.upload_ok))>> ELSE <<>>),
              response |-> IF uploaded THEN "200" ELSE "raised",
              tmp      |-> (tmp \cup written) \ {local, out},
              uploaded |-> uploaded]

\* vcm-preprocess-lambda/lambda_function.py: download, qpdf check of the
\* download, upload of the download under processed/, asynchronous invoke of
\* the textract handler.  No test of the key, no OCR, no cleanup.
preprocess_lambda_handler(key, tmp, env) ==
    LET local    == local_path(basename(key))
        qpdf_ok  == env.download_ok /\ env.qpdf_rc = 0
        uploaded == qpdf_ok /\ env.upload_ok
    IN  [steps |->
             <<Step("download", Rc(env.download_ok))>>
             \o (IF env.download_ok THEN <<Step("qpdf", env.qpdf_rc)>> ELSE <<>>)
             \o (IF qpdf_ok THEN <<Step("upload", Rc(env.upload_ok))>> ELSE <<>>)
             \o (IF uploaded THEN <<Step("invoke", Rc(env.invoke_ok))>> ELSE <<>>),
         response |-> IF uploaded /\ env.invoke_ok THEN "200" ELSE "raised",
         tmp      |-> IF env.download_ok THEN tmp \cup {local} ELSE tmp,
         uploaded |-> uploaded]

(***************************************************************************)
(* Inputs: what the extraction patterns capture                            *)
(***************************************************************************)
Strs(chars, n) == UNION {[1..k -> chars] : k \in 1..n}

\* "u.cc"
FmtCents(c) ==
    (IF c < 100 THEN <<"0">> ELSE ToDigits(c \div 100))
    \o <<".", DigitChars[((c % 100) \div 10) + 1], DigitChars[(c % 10) + 1]>>

IdChars == {"I", "T"}

RateChars == {"2", ".", ","}

VatIdInputs == {NoneStr} \cup Strs(IdChars, MaxIdLen)

RateInputs == {NoneStr} \cup Strs(RateChars, MaxRateLen)

AmountInputs ==
    {NoneStr, <<"€">>} \cup {FmtCents(c) : c \in 0..MaxAmountCents}

\* net totals, in cents; NetInputs takes the first MaxNets of them
NetLadder == <<0, 25, 300, 50, 125>>

NetInputs ==
    {NoneStr, <<"€">>} \cup {FmtCents(NetLadder[i]) : i \in 1..MaxNets}

\* Arguments of normalize_number: every short string over RawChars, and the
\* formatted numbers of both conventions, with and without a currency symbol.
RawChars == {"1", ".", ",", "€", "C", "H", "F", " "}

FmtDigits == {"0", "5"}

Heads == {h \in Strs(FmtDigits, 3) : h[1] # "0"}

Triples == [1..3 -> FmtDigits]

Fractions == Strs(FmtDigits, 2)

RECURSIVE Grouped(_, _)
Grouped(sep, k) ==
    IF k = 0 THEN {<<>>}
    ELSE {g \o <<sep>> \o t : g \in Grouped(sep, k - 1), t \in Triples}

\* "5,000.50": ',' between groups of three digits, '.' before the decimals
AnglophoneStrs ==
    {h \o g \o <<".">> \o f :
        h \in Heads, g \in UNION {Grouped(",", k) : k \in 1..MaxGroups},
        f \in Fractions}

\* "5.000,50": '.' between groups of three digits, ',' before the decimals
ContinentalCores ==
    {h \o g \o <<",">> \o f :
        h \in Heads, g \in UNION {Grouped(".", k) : k \in 1..MaxGroups},
        f \in Fractions}

CurrencySymbols == {<<"€">>, <<"$">>, <<"£">>, <<"C", "H", "F">>}

ContinentalStrs ==
    ContinentalCores
    \cup {c \o n : c \in CurrencySymbols, n \in ContinentalCores}
    \cup {n \o c : c \in CurrencySymbols, n \in ContinentalCores}

PlainStrs == {h \o <<".">> \o f : h \in Heads, f \in Fractions} \cup Heads

NormalizeInputs ==
    {NoneStr, <<>>} \cup Strs(RawChars, MaxRawLen) \cup AnglophoneStrs
    \cup ContinentalStrs \cup PlainStrs

Row(c, r) == [country |-> c, rate |-> r]

Configs ==
    { <<Row(<<"I", "T">>, <<"0", ".", "2", "2">>),
        Row(<<"i", "t">>, <<"0", ".", "2">>)>>,
      <<>> }

(***************************************************************************)
(* State machine                                                           *)
(***************************************************************************)
InitWith(configs) ==
    /\ pc = "idle"
    /\ handler = "none"
    /\ vat_id_raw = NoneStr /\ vat_rate_str = NoneStr
    /\ vat_amount_str = NoneStr /\ net_total_str = NoneStr
    /\ vid = NoneStr /\ country = NoneStr
    /\ vat_rate = None /\ vat_amount = None /\ net_total = None
    /\ allowed_rates = <<>>
    /\ status = "unset" /\ reasons = <<>> /\ reason = <<>>
    /\ CACHED_ALLOWED_RATES = NoDict
    /\ config_csv \in configs
    /\ error = "none"
    /\ value = NoneStr /\ result = None
    /\ id_text = <<>>
    /\ fetched = FALSE
    /\ effects = <<>>
    /\ CACHED_SLACK_WEBHOOK_URL = "None"
    /\ event = <<>> /\ emails = <<>>
    /\ preprocessor = "none"
    /\ s3_events = <<>> /\ object_key = <<>>
    /\ tmp_files = {}
    /\ steps = <<>> /\ response = "none"
    /\ uploads = 0

Init == InitWith(Configs)

Invoke(h, id, rs, as, ns, out, stored) ==
    /\ handler' = h
    /\ vat_id_raw' = id /\ vat_rate_str' = rs
    /\ vat_amount_str' = as /\ net_total_str' = ns
    /\ pc' = out.pc /\ error' = out.error
    /\ vid' = out.vid /\ country' = out.country
    /\ vat_rate' = out.vat_rate /\ vat_amount' = out.vat_amount
    /\ net_total' = out.net_total /\ allowed_rates' = out.allowed_rates
    /\ status' = out.status /\ reasons' = out.reasons /\ reason' = out.reason
    /\ CACHED_ALLOWED_RATES' = out.cache
    /\ effects' = stored.effects
    /\ CACHED_SLACK_WEBHOOK_URL' = stored.cache
    /\ UNCHANGED <<config_csv, normVars, auxVars>>

\* One invocation of vcm-textract-lambda's lambda_handler, on the captures of
\* an invoice drawn from ids, rss, ass, nss and with collaborators behaving
\* as one of envs.  The amount pattern contains the rate pattern, so an
\* amount is captured only with a rate.  The fetch of the config may fail
\* (fetch_ok) and binary floating point may decide a rounding tie (tieUp) or a
\* difference equal to the tolerance (edgeOver) either way: validated ranges
\* over the outcomes of these choices.
TextractInvocation(ids, rss, ass, nss, envs) ==
    /\ pc = "idle"
    /\ \E id \in ids, rs \in rss, as \in ass, ns \in nss, env \in envs :
          /\ as # NoneStr => rs # NoneStr
          /\ \E f \in {textract_fields(id, rs, as, ns)} :
             \E validated \in {textract_lambda_handler(f,
                                   CACHED_ALLOWED_RATES, config_csv, fetch_ok,
                                   tieUp, edgeOver) :
                                fetch_ok \in BOOLEAN, tieUp \in BOOLEAN,
                                edgeOver \in BOOLEAN} :
             \E stored \in {textract_store_results(validated,
                                   CACHED_SLACK_WEBHOOK_URL, env)} :
             \E out \in {Outcome(validated, stored)} :
                Invoke("textract", id, rs, as, ns, out, stored)

\* every short invoice, the collaborators behind the outputs all answering
TextractHandler ==
    TextractInvocation(VatIdInputs, RateInputs, AmountInputs, NetInputs, {OkEnv})

\* One invocation of ocr_lambda's lambda_handler.
OcrHandler ==
    /\ pc = "idle"
    /\ \E id \in VatIdInputs, rs \in RateInputs, as \in AmountInputs,
          ns \in NetInputs :
          /\ as # NoneStr => rs # NoneStr
          /\ \E f \in {ocr_fields(id, rs, as, ns)} :
             \E validated \in {ocr_lambda_handler(f,
                                   CACHED_ALLOWED_RATES, config_csv, fetch_ok,
                                   tieUp, edgeOver) :
                                fetch_ok \in BOOLEAN, tieUp \in BOOLEAN,
                                edgeOver \in BOOLEAN} :
             \E stored \in {ocr_store_results(validated,
                                   CACHED_SLACK_WEBHOOK_URL, OkEnv)} :
             \E out \in {Outcome(validated, stored)} :
                Invoke("ocr", id, rs, as, ns, out, stored)

\* The invocation is over (returned or raised); the process, with its module
\* globals, waits for the next event.
Return ==
    /\ pc \in {"done", "raised"}
    /\ pc' = "idle"
    /\ handler' = "none"
    /\ vat_id_raw' = NoneStr /\ vat_rate_str' = NoneStr
    /\ vat_amount_str' = NoneStr /\ net_total_str' = NoneStr
    /\ vid' = NoneStr /\ country' = NoneStr
    /\ vat_rate' = None /\ vat_amount' = None /\ net_total' = None
    /\ allowed_rates' = <<>>
    /\ status' = "unset" /\ reasons' = <<>> /\ reason' = <<>>
    /\ error' = "none"
    /\ effects' = <<>>
    /\ UNCHANGED <<CACHED_ALLOWED_RATES, CACHED_SLACK_WEBHOOK_URL, config_csv,
                   normVars, auxVars>>

Next == TextractHandler \/ OcrHandler \/ Return

\* A call of normalize_number on its own.
NormalizeNumber ==
    /\ pc = "idle"
    /\ \E v \in NormalizeInputs :
          /\ value' = v
          /\ result' = normalize_number(v)
    /\ pc' = "nn_done"
    /\ UNCHANGED <<invoiceVars, CACHED_ALLOWED_RATES, config_csv, auxVars,
                   storeVars>>

NormalizeReturn ==
    /\ pc = "nn_done"
    /\ pc' = "idle"
    /\ value' = NoneStr /\ result' = None
    /\ UNCHANGED <<invoiceVars, CACHED_ALLOWED_RATES, config_csv, auxVars,
                   storeVars>>

NextNormalize == NormalizeNumber \/ NormalizeReturn

SpecNormalize == Init /\ [][NextNormalize]_vars

\* Country resolution on its own: lines 208-222 of the textract handler, on
\* the text that follows the VAT-id label.
IdTextChars == {"C", "H", "E", "h", "I", "T", "1", "-", " "}

IdTexts == Strs(IdTextChars, MaxIdTextLen)

ResolveCountry ==
    /\ pc = "idle"
    /\ \E t \in IdTexts :
          LET raw == extract_vat_id(t)
              v   == textract_vid(raw)
          IN  /\ id_text' = t
              /\ vat_id_raw' = raw
              /\ vid' = v
              /\ country' = textract_country(v)
    /\ pc' = "rc_done"
    /\ UNCHANGED <<handler, vat_rate_str, vat_amount_str, net_total_str,
                   vat_rate, vat_amount, net_total, allowed_rates, status,
                   reasons, reason, error, CACHED_ALLOWED_RATES, config_csv,
                   normVars, loadVars, storeVars, alertVars, prepVars>>

ResolveReturn ==
    /\ pc = "rc_done"
    /\ pc' = "idle"
    /\ id_text' = <<>>
    /\ vat_id_raw' = NoneStr /\ vid' = NoneStr /\ country' = NoneStr
    /\ UNCHANGED <<handler, vat_rate_str, vat_amount_str, net_total_str,
                   vat_rate, vat_amount, net_total, allowed_rates, status,
                   reasons, reason, error, CACHED_ALLOWED_RATES, config_csv,
                   normVars, loadVars, storeVars, alertVars, prepVars>>

NextCountry == ResolveCountry \/ ResolveReturn

SpecCountry == Init /\ [][NextCountry]_vars

\* Calls of load_allowed_rates on their own, one after the other in one
\* process, against a config object of up to MaxRows rows.
ConfigRows ==
    { Row(<<"I", "T">>, <<"0", ".", "2", "2">>),
      Row(<<"i", "t">>, <<"0", ".", "2">>),
      Row(<<"C", "H">>, <<"0", ".", "0", "2">>),
      Row(<<"C", "H">>, <<"x">>) }

CacheConfigs == {<<>>} \cup UNION {[1..k -> ConfigRows] : k \in 1..MaxRows}

InitCache == InitWith(CacheConfigs)

LoadAllowedRates ==
    /\ pc = "idle"
    /\ \E fetch_ok \in BOOLEAN :
          LET loaded == load_allowed_rates(CACHED_ALLOWED_RATES, config_csv, fetch_ok)
          IN  /\ pc' = IF loaded.ok THEN "lr_done" ELSE "lr_raised"
              /\ error' = IF loaded.ok THEN "none" ELSE "ConfigLoadFailure"
              /\ allowed_rates' = loaded.rates
              /\ CACHED_ALLOWED_RATES' = loaded.cache
              /\ fetched' = loaded.fetched
    /\ UNCHANGED <<handler, vat_id_raw, vat_rate_str, vat_amount_str,
                   net_total_str, vid, country, vat_rate, vat_amount, net_total,
                   status, reasons, reason, config_csv, normVars, countryVars,
                   storeVars, alertVars, prepVars>>

LoadReturn ==
    /\ pc \in {"lr_done", "lr_raised"}
    /\ pc' = "idle"
    /\ error' = "none" /\ allowed_rates' = <<>> /\ fetched' = FALSE
    /\ UNCHANGED <<handler, vat_id_raw, vat_rate_str, vat_amount_str,
                   net_total_str, vid, country, vat_rate, vat_amount, net_total,
                   status, reasons, reason, CACHED_ALLOWED_RATES, config_csv,
                   normVars, countryVars, storeVars, alertVars, prepVars>>

NextCache == LoadAllowedRates \/ LoadReturn

SpecCache == InitCache /\ [][NextCache]_vars

Spec == Init /\ [][Next]_vars

\* The PDF preprocessing handlers behind an S3 trigger that delivers every
\* ObjectCreated event of the bucket, their own uploads included.
KeyNames == {"a.pdf", "b.pdf"}

KeyPrefixes == {<<>>, <<"raw">>, <<"processed">>, <<"raw", "processed">>}

Keys == {p \o <<n>> : p \in KeyPrefixes, n \in KeyNames}

ExitCodes == {0, 2, 3}

PrepEnvs ==
    [download_ok : BOOLEAN, ocr_rc : ExitCodes, ocr_wrote : BOOLEAN,
     qpdf_rc : ExitCodes, upload_ok : BOOLEAN, invoke_ok : BOOLEAN]

\* somebody puts an object into the bucket
PutObject ==
    /\ pc = "idle"
    /\ s3_events = <<>>
    /\ \E key \in Keys : s3_events' = <<key>>
    /\ uploads' = 0
    /\ UNCHANGED <<pc, invoiceVars, CACHED_ALLOWED_RATES, config_csv, normVars,
                   countryVars, loadVars, storeVars, alertVars, preprocessor,
                   object_key, tmp_files, steps, response>>

\* the oldest event is delivered and handled; an upload raises the next event
Handle(name, key, out) ==
    /\ preprocessor' = name
    /\ object_key' = key
    /\ steps' = out.steps
    /\ response' = out.response
    /\ tmp_files' = out.tmp
    /\ s3_events' = Tail(s3_events)
                      \o (IF out.uploaded THEN <<output_key(basename(key))>> ELSE <<>>)
    /\ uploads' = uploads + (IF out.uploaded THEN 1 ELSE 0)
    /\ pc' = "pp_done"
    /\ UNCHANGED <<invoiceVars, CACHED_ALLOWED_RATES, config_csv, normVars,
                   countryVars, loadVars, storeVars, alertVars>>

DockerHandler ==
    /\ pc = "idle"
    /\ s3_events # <<>>
    /\ uploads < MaxUploads
    /\ \E env \in PrepEnvs :
          Handle("docker", Head(s3_events),
                 docker_lambda_handler(Head(s3_events), tmp_files, env))

PreprocessHandler ==
    /\ pc = "idle"
    /\ s3_events # <<>>
    /\ uploads < MaxUploads
    /\ \E env \in PrepEnvs :
          Handle("preprocess", Head(s3_events),
                 preprocess_lambda_handler(Head(s3_events), tmp_files, env))

PrepReturn ==
    /\ pc = "pp_done"
    /\ pc' = "idle"
    /\ preprocessor' = "none" /\ object_key' = <<>>
    /\ steps' = <<>> /\ response' = "none"
    /\ UNCHANGED <<invoiceVars, CACHED_ALLOWED_RATES, config_csv, normVars,
                   countryVars, loadVars, storeVars, alertVars, s3_events,
                   tmp_files, uploads>>

NextPreprocess == PutObject \/ DockerHandler \/ PreprocessHandler \/ PrepReturn

SpecPreprocess == Init /\ [][NextPreprocess]_vars

\* The alert handler, on DynamoDB stream events of up to MaxRecords records.
StreamRecords ==
    {StreamRecord(n, i) : n \in {"INSERT", "MODIFY", "REMOVE"},
                          i \in {"none", "absent", "PASS", "FAIL"}}

StreamEvents == {<<>>} \cup UNION {[1..k -> StreamRecords] : k \in 1..MaxRecords}

AlertHandler ==
    /\ pc = "idle"
    /\ \E ev \in StreamEvents, ses \in {"ok", "fails", "no_env"} :
          /\ event' = ev
          /\ emails' = alert_records(ev, 1, ses)
    /\ pc' = "al_done"
    /\ UNCHANGED <<invoiceVars, CACHED_ALLOWED_RATES, config_csv, normVars,
                   countryVars, loadVars, storeVars, prepVars>>

AlertReturn ==
    /\ pc = "al_done"
    /\ pc' = "idle"
    /\ event' = <<>> /\ emails' = <<>>
    /\ UNCHANGED <<invoiceVars, CACHED_ALLOWED_RATES, config_csv, normVars,
                   countryVars, loadVars, storeVars, prepVars>>

NextAlert == AlertHandler \/ AlertReturn

SpecAlert == Init /\ [][NextAlert]_vars

\* The textract handler with collaborators that may fail: a few invoices,
\* every behaviour of the row store, the Parquet upload, the secret and the
\* webhook, and a config object that may not parse.
StoreIds == {NoneStr, <<"I", "T">>}

StoreRates == {NoneStr, <<"2", "2">>, <<".">>}

StoreAmounts == {NoneStr, <<"0", ".", "0", "5">>}

StoreNets == {NoneStr, <<"0", ".", "2", "5">>}

StoreConfigs ==
    { <<Row(<<"I", "T">>, <<"0", ".", "2", "2">>)>>,
      <<>>,
      <<Row(<<"I", "T">>, <<"0", ".", "2", "2">>), Row(<<"C", "H">>, <<"x">>)>> }

InitStore == InitWith(StoreConfigs)

TextractStoreHandler ==
    TextractInvocation(StoreIds, StoreRates, StoreAmounts, StoreNets, Envs)

NextStore == TextractStoreHandler \/ Return

SpecStore == InitStore /\ [][NextStore]_vars

(***************************************************************************)
(* Properties                                                              *)
(***************************************************************************)
Done == pc = "done"

HasReason(k) == \E i \in 1..Len(reasons) : reasons[i].kind = k

AllPresent == vat_rate.some /\ vat_amount.some /\ net_total.some

Tolerance == IF handler = "ocr" THEN OCR_TOLERANCE_CENTS ELSE TOLERANCE_CENTS

\* the exact difference exceeds tol cents, whichever way a rounding tie goes
MathOff(tol) ==
    \A t \in BOOLEAN :
        Diff(ExpectedVat(net_total, vat_rate, t), vat_amount)
            > tol * Pow10(ScaleOf(vat_amount) - 2)

\* the exact difference is below tol cents, whichever way a rounding tie goes
MathWithin(tol) ==
    \A t \in BOOLEAN :
        Diff(ExpectedVat(net_total, vat_rate, t), vat_amount)
            < tol * Pow10(ScaleOf(vat_amount) - 2)

CompletenessViolated ==
    vat_id_raw = NoneStr \/ ~vat_rate.some \/ ~vat_amount.some

\* counted only for a country that was resolved: an identifier that is
\* missing or has no country prefix is not counted as a second violation
CountryViolated == country # NoneStr /\ country \notin DOMAIN allowed_rates

RateViolated ==
    country \in DOMAIN allowed_rates /\ ~InList(vat_rate, allowed_rates[country])

MathViolated == AllPresent /\ Truthy(net_total) /\ MathOff(Tolerance)

B2N(b) == IF b THEN 1 ELSE 0

ViolatedChecks ==
    B2N(CompletenessViolated) + B2N(CountryViolated) + B2N(RateViolated)
    + B2N(MathViolated)

\* C1: the evaluation accumulates: the reasons list holds one reason per
\* violated check (completeness, country recognition, rate membership,
\* arithmetic consistency), and the arithmetic check is reported whenever the
\* three numbers are present and disagree, even after an earlier failure.
C1_Accumulates ==
    Done => /\ Len(reasons) >= ViolatedChecks
            /\ MathViolated => HasReason("Math check failed")

\* C2: a missing VAT identifier, with rate, amount and net total present,
\* ends in FAIL with a reason about the missing/invalid required field,
\* whether or not the arithmetic on the other fields is consistent.
C2_MissingVatIdFails ==
    (Done /\ vat_id_raw = NoneStr /\ AllPresent)
        => /\ status = "FAIL"
           /\ \/ HasReason("Invalid VAT ID format")
              \/ HasReason("Missing one or more required fields")

C2_Witness ==
    /\ Done /\ handler = "textract" /\ vat_id_raw = NoneStr /\ AllPresent
    /\ Truthy(net_total) /\ MathWithin(TOLERANCE_CENTS)
    /\ status = "FAIL" /\ HasReason("Invalid VAT ID format")

\* C3: at the end of the evaluation the reasons list is empty exactly when
\* status is PASS, and a PASS result is rendered "All checks passed".
C3_ReasonsIffFail ==
    Done => /\ status \in {"PASS", "FAIL"}
            /\ (reasons = <<>>) <=> (status = "PASS")
            /\ status = "PASS" => reason = <<"All checks passed">>

C3_Witness ==
    /\ Done /\ handler = "textract" /\ status = "PASS" /\ Truthy(net_total)
    /\ reasons = <<>> /\ reason = <<"All checks passed">>

\* C4: a resolved two-letter country that is not a key of the configuration, with the
\* required fields present, gives FAIL with a "country not in configuration"
\* reason and no "invalid VAT rate" reason.
C4_UnknownCountry ==
    (Done /\ vat_id_raw # NoneStr /\ textract_match(country) /\ vat_rate.some
          /\ vat_amount.some /\ country \notin DOMAIN allowed_rates)
        => /\ status = "FAIL"
           /\ HasReason("Country code not in configuration")
           /\ ~HasReason("Invalid VAT rate")

\* C5: with all fields present, a recognized country and an allowed rate,
\* the result is PASS with no reasons exactly when
\* |round(net_total * vat_rate, 2) - vat_amount| <= 0.02, and otherwise FAIL
\* with a math-mismatch reason citing round(net_total * vat_rate, 2).
C5_MathCheck ==
    (Done /\ vat_id_raw # NoneStr /\ AllPresent
          /\ country \in DOMAIN allowed_rates
          /\ InList(vat_rate, RatesFor(allowed_rates, country)))
        => \E t \in BOOLEAN :
             LET expected == ExpectedVat(net_total, vat_rate, t) IN
             IF Diff(expected, vat_amount)
                    <= TOLERANCE_CENTS * Pow10(ScaleOf(vat_amount) - 2)
             THEN status = "PASS" /\ reasons = <<>>
             ELSE /\ status = "FAIL"
                  /\ \E i \in 1..Len(reasons) :
                        /\ reasons[i].kind = "Math check failed"
                        /\ reasons[i].expected = FromCents(expected)

\* C6: the stored vat_rate is r/100 when the raw rate r is above 1 and r
\* itself otherwise, in every handler that produces a rate.
C6_RateRule ==
    (Done /\ vat_rate_str # NoneStr)
        => vat_rate = IF GreaterThanOne(RawRate(vat_rate_str))
                      THEN Div100(RawRate(vat_rate_str))
                      ELSE RawRate(vat_rate_str)

InUnitInterval(x) == x.ip = <<>> \/ (x.ip = <<"1">> /\ x.fp = <<>>)

\* C7: in every result vat_rate is absent or a fraction within [0, 1].
C7_RateIsFraction ==
    (Done /\ handler = "textract") => (~vat_rate.some \/ InUnitInterval(vat_rate))

\* the value of a formatted number when sep groups the thousands and point
\* precedes the decimals; currency symbols are not part of the number
ReadAs(s, sep, point) ==
    LET core == SelectSeq(s, LAMBDA ch : ch \in Digits \cup {point})
        at   == CHOOSE i \in 1..Len(core) : core[i] = point
    IN  Num(SubSeq(core, 1, at - 1), SubSeq(core, at + 1, Len(core)))

\* C8: for a number in anglophone formatting ("5,000.50") normalize_number
\* returns the value with the commas removed and the dot kept as the
\* decimal point.
C8_Anglophone ==
    (pc = "nn_done" /\ value \in AnglophoneStrs)
        => result = ReadAs(value, ",", ".")

\* C9: for a number in continental formatting ("5.000,50"), with or without
\* a currency symbol, normalize_number returns the value with the dots
\* removed and the comma read as the decimal point.
C9_Continental ==
    (pc = "nn_done" /\ value \in ContinentalStrs)
        => result = ReadAs(value, ".", ",")

C9_Witness ==
    /\ pc = "nn_done" /\ value \in ContinentalStrs
    /\ SubSeq(value, 1, 3) = <<"C", "H", "F">>
    /\ result.some /\ Len(result.ip) >= 4 /\ result.fp # <<>>

\* C10: no captured field value makes the textract handler raise: what does
\* not parse becomes a null value or a reason, and the handler goes on to
\* its PASS/FAIL result.
C10_NeverRaisesOnFields ==
    handler = "textract" => error # "ValueError"

\* the identifier begins with the letters p, in any letter case
StartsWith(t, p) == Len(t) >= Len(p) /\ upper(SubSeq(t, 1, Len(p))) = p

\* C11: a VAT identifier whose first two characters are the known misread
\* "1T" of "IT" is corrected, and the resolved country is "IT".
C11_FuzzyCorrection ==
    (pc = "rc_done" /\ StartsWith(id_text, <<"1", "T">>))
        => country = <<"I", "T">>

\* C12: every VAT identifier that starts with "CHE", in any letter case and
\* whatever follows the prefix, resolves to the country code "CH".
C12_SwissPrefix ==
    (pc = "rc_done" /\ StartsWith(id_text, <<"C", "H", "E">>))
        => country = <<"C", "H">>

C12_Witness ==
    /\ pc = "rc_done"
    /\ id_text = <<"C", "h", "E", "-">>
    /\ country = <<"C", "H">>

\* C13: once a call of load_allowed_rates has returned successfully (the
\* cache has been assigned), every later call returns the cached mapping and
\* issues no fetch, whatever the config holds, a config without rows included.
C13_FetchedOnce ==
    [][(pc = "idle" /\ pc' \in {"lr_done", "lr_raised"} /\ CACHED_ALLOWED_RATES.set)
          => (pc' = "lr_done" /\ ~fetched'
              /\ allowed_rates' = CACHED_ALLOWED_RATES.rates)]_vars

\* `if CACHED_ALLOWED_RATES:`
CacheTruthy(cache) == cache.set /\ DOMAIN cache.rates # {}

\* C14: when the config cannot be fetched or parsed, the textract handler
\* raises, the cache is left as it was and unpopulated, and nothing is written
\* to the row store, exported or notified; a config that does not parse
\* makes every invocation that reaches the load end this way.
C14_ConfigLoadFailure ==
    [][(pc = "idle" /\ handler' = "textract")
          => /\ error' = "ConfigLoadFailure"
                  => /\ pc' = "raised"
                     /\ effects' = <<>>
                     /\ CACHED_ALLOWED_RATES' = CACHED_ALLOWED_RATES
                     /\ ~CacheTruthy(CACHED_ALLOWED_RATES')
             /\ (~RowsParse(config_csv) /\ RateParses(vat_rate_str'))
                  => error' = "ConfigLoadFailure"]_vars

C14_Witness ==
    /\ handler = "textract" /\ pc = "raised" /\ error = "ConfigLoadFailure"
    /\ ~RowsParse(config_csv)
    /\ vat_id_raw # NoneStr /\ vat_rate_str # NoneStr
    /\ effects = <<>> /\ ~CACHED_ALLOWED_RATES.set

Ops(es) == [i \in 1..Len(es) |-> es[i].op]

\* C18: the textract handler calls the row store, then the Parquet export,
\* then the Slack notification.  When the row-store write fails it raises and
\* calls neither of the other two; when the write succeeds both are called
\* and the handler returns, whether or not they succeed.
C18_OutputOrder ==
    (handler = "textract" /\ pc \in {"done", "raised"})
        => /\ (pc = "done") = (Ops(effects) = <<"put_item", "parquet", "slack">>)
           /\ pc = "done" => effects[1].ok
           /\ pc = "raised" =>
                 \/ effects = <<>> /\ error \in {"ValueError", "ConfigLoadFailure"}
                 \/ effects = <<Effect("put_item", FALSE)>> /\ error = "StoreError"

C18_Witness ==
    /\ handler = "textract" /\ pc = "done" /\ error = "none"
    /\ effects = <<Effect("put_item", TRUE), Effect("parquet", FALSE),
                   Effect("slack", FALSE)>>
    /\ CACHED_SLACK_WEBHOOK_URL = "None"

\* the number of send_email calls made for record i
EmailsFor(i) == Cardinality({j \in 1..Len(emails) : emails[j].record = i})

HasStep(op) == \E i \in 1..Len(steps) : steps[i].op = op

StepFailed(op) == \E i \in 1..Len(steps) : steps[i].op = op /\ steps[i].rc # 0

StepPassed(op) == \E i \in 1..Len(steps) : steps[i].op = op /\ steps[i].rc = 0

\* C16: a preprocessing handler that gets an event for a key under
\* "processed/" downloads, runs and uploads nothing and returns 200, and one
\* raw upload leads to at most one upload under "processed/".
C16_NoReprocessing ==
    /\ (pc = "pp_done" /\ startswith_processed(object_key))
           => (steps = <<>> /\ response = "200")
    /\ uploads <= 1

\* C17: the docker handler uploads only after the OCR run and the qpdf check
\* of this invocation both exited with 0; when one of them fails it raises
\* and uploads nothing; whenever it got as far as the download, neither of
\* its two temporary files is left behind.
C17_UploadAfterChecks ==
    (pc = "pp_done" /\ preprocessor = "docker")
        => /\ HasStep("upload") => (StepPassed("ocr") /\ StepPassed("qpdf"))
           /\ (StepFailed("ocr") \/ StepFailed("qpdf"))
                 => (response = "raised" /\ ~HasStep("upload"))
           /\ HasStep("download")
                 => tmp_files \cap {local_path(basename(object_key)),
                                   ocr_output_path(basename(object_key))} = {}

C17_Witness ==
    /\ pc = "pp_done" /\ preprocessor = "docker"
    /\ steps = <<Step("download", 0), Step("ocr", 0), Step("qpdf", 3)>>
    /\ response = "raised"
    /\ uploads = 0

====
